---- MODULE Spec2Model ----
(***************************************************************************)
(* Model of server.py: the Morning Routine Tracker development server.     *)
(*                                                                         *)
(* main() is a sequential process (pc); MorningRoutineHandler answers one  *)
(* request at a time inside serve_forever().  Strings that the code        *)
(* inspects character by character (request paths, file names) are        *)
(* sequences of one-character strings, so that endswith() and the          *)
(* comparison with '/' are computed rather than assumed.  What the handler *)
(* writes to the client is the sequence wfile of wire items: status lines, *)
(* headers, the blank line that ends a header block, and body bytes.       *)
(* Header names are case-insensitive in HTTP and are written in one case.  *)
(***************************************************************************)
EXTENDS Integers, Sequences, FiniteSets

\* ------------------------------------------------------------------ bounds

\* Longest file content; the content of length n is <<1, ..., n>>.
MaxFileLen == 2

\* --------------------------------------------------------------- constants

\* The errno main() compares with (EADDRINUSE on macOS / BSD).
PortInUseErrno == 48

\* What EADDRINUSE is numerically on macOS, Linux and Windows.
AddrInUseErrnos == {48, 98, 10048}

\* Another OSError a bind can raise (EACCES).
OtherBindErrnos == {13}

\* ------------------------------------------------------------------ names

index_html    == <<"i","n","d","e","x",".","h","t","m","l">>
styles_css    == <<"s","t","y","l","e","s",".","c","s","s">>
app_js        == <<"a","p","p",".","j","s">>
manifest_json == <<"m","a","n","i","f","e","s","t",".","j","s","o","n">>
sw_js         == <<"s","w",".","j","s">>
icons_dir     == <<"i","c","o","n","s">>

required_files == <<index_html, styles_css, app_js, manifest_json, sw_js>>

Slash == <<"/">>

RootPath     == Slash
IndexPath    == Slash \o index_html
SwPath       == Slash \o sw_js
ManifestPath == Slash \o manifest_json
AppJsPath    == Slash \o app_js
AppJsQuery   == Slash \o app_js \o <<"?","v">>
StylesPath   == Slash \o styles_css
LogoPath     == Slash \o <<"l","o","g","o",".","p","n","g">>
NoSuchPath   == Slash \o <<"n","o","n","e",".","h","t","m","l">>
DataJsonPath == Slash \o <<"d","a","t","a",".","j","s","o","n">>
IconsPath    == Slash \o icons_dir

\* The request paths a client sends.
Paths == {RootPath, IndexPath, SwPath, ManifestPath, AppJsPath, AppJsQuery,
          StylesPath, LogoPath, NoSuchPath, DataJsonPath, IconsPath}

\* The request methods a client sends.
Commands == {"GET", "HEAD", "POST"}

\* What mimetypes gives for .js: it depends on the Python version and on
\* the system's mime.types.
JsTypes == {"text/javascript", "application/javascript"}

\* ------------------------------------------------------------- file system

FileNames == {required_files[i] : i \in 1..Len(required_files)}

Contents == {[i \in 1..n |-> i] : n \in 0..MaxFileLen}

NoFile == [exists |-> FALSE, data |-> <<>>]

File(d) == [exists |-> TRUE, data |-> d]

FileStates == {NoFile} \cup {File(d) : d \in Contents}

\* ------------------------------------------------------------------ state

VARIABLES
    pc,           \* where main() is
    fs,           \* the regular files of the working directory
    icons,        \* whether the icons directory exists
    out,          \* what main() printed
    listening,    \* whether the TCPServer holds the bound socket
    bindAttempted,\* whether TCPServer(("", PORT), ...) was called
    bindErrno,    \* errno of the OSError the bind raised (0: none)
    interrupted,  \* whether a KeyboardInterrupt was delivered after the bind
    command,      \* method of the request being answered ("" when idle)
    requestPath,  \* path of the request line, as received
    path,         \* self.path of the handler, after do_GET
    wfile         \* what the handler wrote to the client

vars == <<pc, fs, icons, out, listening, bindAttempted, bindErrno,
          interrupted, command, requestPath, path, wfile>>

mainVars == <<pc, out, listening, bindAttempted, bindErrno>>
connVars == <<command, requestPath, path, wfile>>

\* ------------------------------------------------------------- wire items

Item(t, code, k, v, data) ==
    [t |-> t, code |-> code, k |-> k, v |-> v, data |-> data]

Status(code)     == Item("status", code, "", "", <<>>)
Header(k, v)     == Item("header", 0, k, v, <<>>)
ContentLength(n) == Item("header", n, "Content-Length", "", <<>>)
Location(url)    == Item("header", 0, "Location", "", url)
EndHeaders       == Item("end", 0, "", "", <<>>)
Body(data)       == Item("body", 0, "", "", data)

\* A call of self.end_headers() made by the inherited code: which method
\* runs is decided by the class of the handler (see Resolve).
CallEndHeaders   == Item("call_end_headers", 0, "", "", <<>>)

\* The HTML page send_error() writes, and the page list_directory() writes:
\* generated text, never the bytes of a served file.
ErrorPage(code) == <<0 - code>>
ListingPage     == <<0>>

\* ----------------------------------------------------------- str helpers

\* s.endswith(suffix)
EndsWith(s, suffix) ==
    /\ Len(s) >= Len(suffix)
    /\ SubSeq(s, Len(s) - Len(suffix) + 1, Len(s)) = suffix

\* The path component of a request target: what precedes '?' or '#'.
RECURSIVE StripQuery(_)
StripQuery(p) ==
    IF p = <<>> \/ Head(p) \in {"?", "#"}
    THEN <<>>
    ELSE <<Head(p)>> \o StripQuery(Tail(p))

\* wfile.write(data): writing no bytes puts nothing on the wire.
write(data) == IF data = <<>> THEN <<>> ELSE <<Body(data)>>

\* --------------------------------------------- MorningRoutineHandler

\* ExtensionOverride with the extension looked for anywhere in self.path
\* ('.js' in self.path) instead of at its end.
ExtensionOverride_anywhere(p) ==
    IF \E i \in 1..Len(p) : EndsWith(SubSeq(p, 1, i), <<".","j","s">>)
    THEN <<Header("Content-Type", "application/javascript")>>
    ELSE IF EndsWith(p, <<".","j","s","o","n">>)
    THEN <<Header("Content-Type", "application/json")>>
    ELSE IF EndsWith(p, <<".","p","n","g">>)
    THEN <<Header("Content-Type", "image/png")>>
    ELSE <<>>

\* The Content-Type end_headers() adds for the extension of self.path.
ExtensionOverride(p) ==
    IF EndsWith(p, <<".","j","s">>)
    THEN <<Header("Content-Type", "application/javascript")>>
    ELSE IF EndsWith(p, <<".","j","s","o","n">>)
    THEN <<Header("Content-Type", "application/json")>>
    ELSE IF EndsWith(p, <<".","p","n","g">>)
    THEN <<Header("Content-Type", "image/png")>>
    ELSE <<>>

\* end_headers with super().end_headers() called first: the headers come
\* after the blank line.
end_headers_late(p) ==
    <<EndHeaders>>
    \o <<Header("Cache-Control", "no-cache"),
         Header("Access-Control-Allow-Origin", "*"),
         Header("Access-Control-Allow-Methods", "GET, POST, OPTIONS"),
         Header("Access-Control-Allow-Headers", "Content-Type")>>

\* MorningRoutineHandler.end_headers with self.path = p.
end_headers(p) ==
    <<Header("Cache-Control", "no-cache"),
      Header("Access-Control-Allow-Origin", "*"),
      Header("Access-Control-Allow-Methods", "GET, POST, OPTIONS"),
      Header("Access-Control-Allow-Headers", "Content-Type")>>
    \o ExtensionOverride(p)
    \o <<EndHeaders>>

\* The inherited calls of self.end_headers() run the override above.
RECURSIVE Resolve(_, _)
Resolve(items, p) ==
    IF items = <<>>
    THEN <<>>
    ELSE (IF Head(items).t = "call_end_headers"
          THEN end_headers(p)
          ELSE <<Head(items)>>) \o Resolve(Tail(items), p)

\* ------------------------------------ inherited (http.server) behaviour

\* send_response(code): the status line and the Server and Date headers.
send_response(code) ==
    <<Status(code), Header("Server", "SimpleHTTP"), Header("Date", "now")>>

\* send_error(code) while answering a cmd request.
send_error(code, cmd) ==
    send_response(code)
    \o <<Header("Connection", "close")>>
    \o (IF code >= 200 /\ code \notin {204, 205, 304}
        THEN <<Header("Content-Type", "text/html;charset=utf-8"),
               ContentLength(Len(ErrorPage(code)))>>
        ELSE <<>>)
    \o <<CallEndHeaders>>
    \o (IF cmd # "HEAD" /\ code >= 200 /\ code \notin {204, 205, 304}
        THEN write(ErrorPage(code))
        ELSE <<>>)

\* translate_path(): the name below the working directory (<<>> is the
\* directory itself).
translate_path(p) == Tail(StripQuery(p))

isdir(name, ic) == name = <<>> \/ (name = icons_dir /\ ic)

isfile(name, f) == name \in FileNames /\ f[name].exists

\* guess_type(): the content type inferred from the file's extension.
guess_type(name, jsType) ==
    IF EndsWith(name, <<".","h","t","m","l">>) THEN "text/html"
    ELSE IF EndsWith(name, <<".","c","s","s">>) THEN "text/css"
    ELSE IF EndsWith(name, <<".","j","s">>) THEN jsType
    ELSE IF EndsWith(name, <<".","j","s","o","n">>) THEN "application/json"
    ELSE IF EndsWith(name, <<".","p","n","g">>) THEN "image/png"
    ELSE "application/octet-stream"

\* send_head() for a regular file name, then the copy of the file (GET).
send_file(name, f, jsType, cmd) ==
    IF ~isfile(name, f)
    THEN send_error(404, cmd)
    ELSE send_response(200)
         \o <<Header("Content-Type", guess_type(name, jsType)),
              ContentLength(Len(f[name].data)),
              Header("Last-Modified", "mtime"),
              CallEndHeaders>>
         \o (IF cmd = "GET" THEN write(f[name].data) ELSE <<>>)

\* SimpleHTTPRequestHandler.do_GET / do_HEAD with self.path = p.
static_serve(p, f, ic, jsType, cmd) ==
    LET name == translate_path(p) IN
    IF isdir(name, ic)
    THEN IF ~EndsWith(StripQuery(p), Slash)
         THEN send_response(301)
              \o <<Location(StripQuery(p) \o Slash), ContentLength(0),
                   CallEndHeaders>>
         ELSE IF isfile(name \o index_html, f)
         THEN send_file(name \o index_html, f, jsType, cmd)
         ELSE send_response(200)
              \o <<Header("Content-Type", "text/html; charset=utf-8"),
                   ContentLength(Len(ListingPage)),
                   CallEndHeaders>>
              \o (IF cmd = "GET" THEN write(ListingPage) ELSE <<>>)
    ELSE send_file(name, f, jsType, cmd)

\* ------------------------------------------ MorningRoutineHandler.do_GET

\* RewritePath without the rewriting of '/'.
RewritePath_none(p) == p

\* "Handle root path": the value of self.path after lines 38-39.
RewritePath(p) == IF p = RootPath THEN IndexPath ELSE p

\* ServeServiceWorker reading the wrong file.
ServeServiceWorker_wrong_file(p, f) ==
    send_response(200)
    \o <<Header("Content-Type", "application/javascript"),
         Header("Service-Worker-Allowed", "/")>>
    \o end_headers(p)
    \o (IF f[manifest_json].exists
        THEN write(f[manifest_json].data)
        ELSE Resolve(send_error(404, "GET"), p))

\* The hand-written response for /sw.js.
ServeServiceWorker(p, f) ==
    send_response(200)
    \o <<Header("Content-Type", "application/javascript"),
         Header("Service-Worker-Allowed", "/")>>
    \o end_headers(p)
    \o (IF f[sw_js].exists
        THEN write(f[sw_js].data)
        ELSE Resolve(send_error(404, "GET"), p))

\* The hand-written response for /manifest.json.
ServeManifest(p, f) ==
    send_response(200)
    \o <<Header("Content-Type", "application/manifest+json")>>
    \o end_headers(p)
    \o (IF f[manifest_json].exists
        THEN write(f[manifest_json].data)
        ELSE Resolve(send_error(404, "GET"), p))

\* do_GET for the request path p: self.path afterwards and what was written.
do_GET(p, f, ic, jsType) ==
    LET sp == RewritePath(p) IN
    [path  |-> sp,
     wfile |-> IF sp = SwPath THEN ServeServiceWorker(sp, f)
               ELSE IF sp = ManifestPath THEN ServeManifest(sp, f)
               ELSE Resolve(static_serve(sp, f, ic, jsType, "GET"), sp)]

\* handle_one_request(): the method do_<command> if the handler has one.
handle_one_request(cmd, p, f, ic, jsType) ==
    IF cmd = "GET" THEN do_GET(p, f, ic, jsType)
    ELSE IF cmd = "HEAD"
    THEN [path |-> p, wfile |-> Resolve(static_serve(p, f, ic, jsType, "HEAD"), p)]
    ELSE [path |-> p, wfile |-> Resolve(send_error(501, cmd), p)]

\* ------------------------------------------------------------------ main

\* One print() of main: what is printed and, for a file line, the name.
Line(msg, arg) == [msg |-> msg, arg |-> arg]

\* [f for f in required_files if not Path(f).exists()]
RECURSIVE missing_from(_, _)
missing_from(files, f) ==
    IF files = <<>>
    THEN <<>>
    ELSE (IF f[Head(files)].exists THEN <<>> ELSE <<Head(files)>>)
         \o missing_from(Tail(files), f)

\* missing_files with the first required file left out of the check.
missing_files_skip_first(f) == missing_from(Tail(required_files), f)

missing_files(f) == missing_from(required_files, f)

\* for file in missing_files: print(f"   - {file}")
print_missing(names) == [i \in 1..Len(names) |-> Line("missing", names[i])]

Init ==
    /\ pc = "check"
    /\ fs \in [FileNames -> FileStates]
    /\ icons \in BOOLEAN
    /\ out = <<>>
    /\ listening = FALSE
    /\ bindAttempted = FALSE
    /\ bindErrno = 0
    /\ interrupted = FALSE
    /\ command = ""
    /\ requestPath = <<>>
    /\ path = <<>>
    /\ wfile = <<>>

\* Lines 74-83: the check of the required files.
CheckRequiredFiles ==
    /\ pc = "check"
    /\ IF missing_files(fs) # <<>>
       THEN /\ out' = out \o <<Line("missing_header", <<>>)>>
                          \o print_missing(missing_files(fs))
                          \o <<Line("missing_footer", <<>>)>>
            /\ pc' = "done"
       ELSE /\ out' = out
            /\ pc' = "icons"
    /\ UNCHANGED <<fs, icons, listening, bindAttempted, bindErrno,
                   interrupted, connVars>>

\* Lines 85-109: the icons warning and the banner.
CheckIconsAndBanner ==
    /\ pc = "icons"
    /\ out' = out \o (IF ~icons THEN <<Line("icons_warning", <<>>)>> ELSE <<>>)
                  \o <<Line("banner", <<>>)>>
    /\ pc' = "bind"
    /\ UNCHANGED <<fs, icons, listening, bindAttempted, bindErrno,
                   interrupted, connVars>>

\* Lines 128-133: the handler of the OSError e with e.errno = errno.
report_oserror(errno) ==
    IF errno = PortInUseErrno
    THEN <<Line("port_in_use", <<>>), Line("port_suggestion", <<>>)>>
    ELSE <<Line("error_starting", <<>>)>>

\* Lines 111-114 and 128-133: TCPServer(("", PORT), ...) binds the port or
\* raises OSError; errno 0 stands for a bind that succeeds.
Bind ==
    /\ pc = "bind"
    /\ bindAttempted' = TRUE
    /\ \E errno \in {0} \cup AddrInUseErrnos \cup OtherBindErrnos :
         /\ bindErrno' = errno
         /\ IF errno = 0
            THEN /\ listening' = TRUE
                 /\ out' = out \o <<Line("started", <<>>), Line("open_hint", <<>>)>>
                 /\ pc' = "browser"
            ELSE /\ listening' = FALSE
                 /\ out' = out \o report_oserror(errno)
                 /\ pc' = "done"
    /\ UNCHANGED <<fs, icons, interrupted, connVars>>

\* OpenBrowser without the inner try: what webbrowser.open() raises leaves
\* main().
OpenBrowser_uncaught ==
    /\ pc = "browser"
    /\ \E result \in {"true", "false", "raise"} :
         IF result = "raise"
         THEN /\ out' = out
              /\ pc' = "done"
              /\ listening' = FALSE
         ELSE /\ out' = out \o <<Line("opening_browser", <<>>)>>
              /\ pc' = "serve"
              /\ listening' = listening
    /\ UNCHANGED <<fs, icons, bindAttempted, bindErrno, interrupted, connVars>>

\* Lines 116-123: webbrowser.open() returns True, returns False or raises;
\* then serve_forever() is entered.
OpenBrowser ==
    /\ pc = "browser"
    /\ \E result \in {"true", "false", "raise"} :
         out' = out \o (IF result = "raise"
                        THEN <<Line("manual_open", <<>>)>>
                        ELSE <<Line("opening_browser", <<>>)>>)
    /\ pc' = "serve"
    /\ UNCHANGED <<fs, icons, listening, bindAttempted, bindErrno,
                   interrupted, connVars>>

\* Ctrl+C once the port is bound.  Inside the inner try (lines 117-121) the
\* bare except takes the KeyboardInterrupt; in serve_forever() (line 123) it
\* leaves the with block, which closes the socket, and lines 125-127 run.
KeyboardInterrupt ==
    /\ pc \in {"browser", "serve"}
    /\ interrupted' = TRUE
    /\ IF pc = "browser"
       THEN /\ out' = out \o <<Line("manual_open", <<>>)>>
            /\ pc' = "serve"
            /\ UNCHANGED <<listening, connVars>>
       ELSE /\ out' = out \o <<Line("stopped", <<>>), Line("thanks", <<>>)>>
            /\ pc' = "done"
            /\ listening' = FALSE
            /\ command' = ""
            /\ requestPath' = <<>>
            /\ path' = <<>>
            /\ wfile' = <<>>
    /\ UNCHANGED <<fs, icons, bindAttempted, bindErrno>>

\* serve_forever(): one request is accepted and answered.
HandleRequest ==
    /\ pc = "serve"
    /\ command = ""
    /\ \E cmd \in Commands, p \in Paths, jsType \in JsTypes :
         LET r == handle_one_request(cmd, p, fs, icons, jsType) IN
         /\ command' = cmd
         /\ requestPath' = p
         /\ path' = r.path
         /\ wfile' = r.wfile
    /\ UNCHANGED <<fs, icons, mainVars, interrupted>>

\* The connection of the answered request is closed.
FinishRequest ==
    /\ pc = "serve"
    /\ command # ""
    /\ command' = ""
    /\ requestPath' = <<>>
    /\ path' = <<>>
    /\ wfile' = <<>>
    /\ UNCHANGED <<fs, icons, mainVars, interrupted>>

\* Between two requests a file of the working directory is removed.
Unlink ==
    /\ pc = "serve"
    /\ command = ""
    /\ \E name \in FileNames :
         /\ fs[name].exists
         /\ fs' = [fs EXCEPT ![name] = NoFile]
    /\ UNCHANGED <<icons, mainVars, interrupted, connVars>>

Next ==
    \/ CheckRequiredFiles
    \/ CheckIconsAndBanner
    \/ Bind
    \/ OpenBrowser
    \/ KeyboardInterrupt
    \/ HandleRequest
    \/ FinishRequest
    \/ Unlink

Spec == Init /\ [][Next]_vars

\* ----------------------------------------------------- reading a response

\* Index of the blank line that ends the first header block (0: none).
FirstEnd(w) ==
    LET ends == {i \in 1..Len(w) : w[i].t \in {"end", "call_end_headers"}}
    IN  IF ends = {} THEN 0 ELSE CHOOSE i \in ends : \A j \in ends : i <= j

\* The status line and headers of the response, and what follows them.
HeaderBlock(w)  == IF FirstEnd(w) = 0 THEN w ELSE SubSeq(w, 1, FirstEnd(w) - 1)
AfterHeaders(w) == IF FirstEnd(w) = 0 THEN <<>> ELSE SubSeq(w, FirstEnd(w) + 1, Len(w))

IsContentType(x) == x.t = "header" /\ x.k = "Content-Type"

\* The values of the Content-Type headers of the header block, in order.
ContentTypes(w) ==
    LET cts == SelectSeq(HeaderBlock(w), IsContentType)
    IN  [i \in 1..Len(cts) |-> cts[i].v]

HasItem(w, x) == \E i \in 1..Len(w) : w[i] = x

\* Every status line of w opens a header block that holds header h.
EveryBlockHas(w, h) ==
    \A i \in 1..Len(w) :
        w[i].t = "status" =>
            \E e \in i..Len(w) :
                /\ w[e].t = "end"
                /\ \A m \in i..e : w[m].t = "end" => m = e
                /\ \E j \in i..e : w[j] = h

Printed(msg) == \E i \in 1..Len(out) : out[i].msg = msg

IsMissingLine(l) == l.msg = "missing"

\* The file names main() listed as missing.
PrintedMissing == SelectSeq(out, IsMissingLine)

Absent == {name \in FileNames : ~fs[name].exists}

Answered == pc = "serve" /\ command # ""

\* ------------------------------------------------------------------ claims

\* C1: a GET to /sw.js or /manifest.json whose file is absent is answered
\* with a 404 status line, no 200 status line and nothing after the header
\* block.
C1_AbsentFileIsNotFoundWithoutBody ==
    ( /\ Answered
      /\ command = "GET"
      /\ \/ requestPath = SwPath /\ ~fs[sw_js].exists
         \/ requestPath = ManifestPath /\ ~fs[manifest_json].exists )
    => /\ wfile # <<>>
       /\ wfile[1] = Status(404)
       /\ ~HasItem(wfile, Status(200))
       /\ AfterHeaders(wfile) = <<>>

\* C2: a GET to /manifest.json whose file exists is answered with status
\* 200, every Content-Type header being application/manifest+json, and the
\* bytes of manifest.json as body.
C2_ManifestResponse ==
    (Answered /\ command = "GET" /\ requestPath = ManifestPath
              /\ fs[manifest_json].exists)
    => /\ wfile # <<>>
       /\ wfile[1] = Status(200)
       /\ ContentTypes(wfile) # <<>>
       /\ \A i \in 1..Len(ContentTypes(wfile)) :
              ContentTypes(wfile)[i] = "application/manifest+json"
       /\ AfterHeaders(wfile) = write(fs[manifest_json].data)

\* C3: every response, whatever the method, the path and the outcome, has
\* Cache-Control: no-cache and Access-Control-Allow-Origin: * in each of
\* its header blocks.
C3_EveryResponseHasPwaHeaders ==
    Answered
    => /\ wfile # <<>>
       /\ wfile[1].t = "status"
       /\ EveryBlockHas(wfile, Header("Cache-Control", "no-cache"))
       /\ EveryBlockHas(wfile, Header("Access-Control-Allow-Origin", "*"))

C3_Witness ==
    /\ Answered
    /\ command = "GET"
    /\ requestPath = NoSuchPath
    /\ wfile[1] = Status(404)

\* C4: main() that ends without calling the bind has printed exactly the
\* names of the absent required files, each once, and there is at least
\* one; a main() past the check has found all five files, printed no
\* missing-file line, and never ends without the bind having been
\* attempted, with or without the icons directory.
C4_MissingFilesAreReportedAndStopStartup ==
    /\ (pc = "done" /\ ~bindAttempted)
       => /\ Absent # {}
          /\ {PrintedMissing[i].arg : i \in 1..Len(PrintedMissing)} = Absent
          /\ Len(PrintedMissing) = Cardinality(Absent)
          /\ Printed("missing_header")
          /\ ~listening
    /\ (pc \in {"icons", "bind", "browser"}) => Absent = {}
    /\ (pc = "done" /\ Absent = {}) => bindAttempted
    /\ bindAttempted => (PrintedMissing = <<>> /\ ~Printed("missing_header"))

C4_Witness ==
    /\ pc = "done"
    /\ ~bindAttempted
    /\ ~icons
    /\ Absent = {styles_css, sw_js}
    /\ Len(PrintedMissing) = 2

\* C5: a bind that fails because the port is in use, whatever number the
\* operating system gives EADDRINUSE, ends main() with the port-in-use
\* message and its suggestion, without the generic error message and
\* without a listening socket.
C5_PortInUseIsReportedAsSuch ==
    (pc = "done" /\ bindErrno \in AddrInUseErrnos)
    => /\ Printed("port_in_use")
       /\ Printed("port_suggestion")
       /\ ~Printed("error_starting")
       /\ ~listening

\* C6: a GET to /sw.js whose file exists is answered with status 200,
\* content type application/javascript, Service-Worker-Allowed: / and the
\* bytes of sw.js as body.
C6_ServiceWorkerResponse ==
    (Answered /\ command = "GET" /\ requestPath = SwPath /\ fs[sw_js].exists)
    => /\ wfile # <<>>
       /\ wfile[1] = Status(200)
       /\ ContentTypes(wfile) # <<>>
       /\ \A i \in 1..Len(ContentTypes(wfile)) :
              ContentTypes(wfile)[i] = "application/javascript"
       /\ HasItem(HeaderBlock(wfile), Header("Service-Worker-Allowed", "/"))
       /\ AfterHeaders(wfile) = write(fs[sw_js].data)

C6_Witness ==
    /\ Answered
    /\ command = "GET"
    /\ requestPath = SwPath
    /\ fs[sw_js].exists
    /\ Len(fs[sw_js].data) = MaxFileLen
    /\ fs[manifest_json].data # fs[sw_js].data

\* C7: a GET to / is answered as a GET to /index.html is, whether
\* index.html exists or not.
C7_RootIsIndex ==
    (Answered /\ command = "GET" /\ requestPath = RootPath)
    => /\ path = IndexPath
       /\ \E jsType \in JsTypes :
              wfile = do_GET(IndexPath, fs, icons, jsType).wfile

C7_Witness ==
    /\ Answered
    /\ command = "GET"
    /\ requestPath = RootPath
    /\ ~fs[index_html].exists
    /\ wfile[1] = Status(404)

\* C8: a GET answered by the default static handling has the extension's
\* content type as its last, overriding Content-Type header when the path
\* ends in .js, .json or .png, and only the Content-Type headers of the
\* inherited response otherwise; GET /app.js of an existing file is a 200
\* with content type application/javascript.
C8_ExtensionContentType ==
    (Answered /\ command = "GET" /\ path \notin {SwPath, ManifestPath})
    => LET cts == ContentTypes(wfile) IN
       /\ EndsWith(path, <<".","j","s">>)
          => (cts # <<>> /\ cts[Len(cts)] = "application/javascript")
       /\ EndsWith(path, <<".","j","s","o","n">>)
          => (cts # <<>> /\ cts[Len(cts)] = "application/json")
       /\ EndsWith(path, <<".","p","n","g">>)
          => (cts # <<>> /\ cts[Len(cts)] = "image/png")
       /\ ( /\ ~EndsWith(path, <<".","j","s">>)
            /\ ~EndsWith(path, <<".","j","s","o","n">>)
            /\ ~EndsWith(path, <<".","p","n","g">>) )
          => \E jsType \in JsTypes :
                 cts = ContentTypes(static_serve(path, fs, icons, jsType, "GET"))
       /\ (requestPath = AppJsPath /\ fs[app_js].exists)
          => (wfile[1] = Status(200) /\ cts[Len(cts)] = "application/javascript")

C8_Witness ==
    /\ Answered
    /\ command = "GET"
    /\ requestPath = AppJsPath
    /\ fs[app_js].exists
    /\ ContentTypes(wfile) = <<"text/javascript", "application/javascript">>

\* C9: whatever the browser launch does, main() goes from it to the serve
\* loop with the socket still listening, and every request answered there
\* is answered as the handler answers it for the files on disk.
C9_BrowserLaunchNeverStopsServer ==
    /\ [][(pc = "browser" /\ pc' # "browser") => (pc' = "serve" /\ listening')]_vars
    /\ [](Answered
          => /\ listening
             /\ \E jsType \in JsTypes :
                    wfile = handle_one_request(command, requestPath, fs,
                                                icons, jsType).wfile)

C9_Witness ==
    /\ Answered
    /\ ~interrupted
    /\ Printed("manual_open")
    /\ listening

\* C10: once the port is bound, no request is answered after an interrupt
\* was delivered: the interrupt ends the serve loop.
C10_NoRequestAnsweredAfterInterrupt ==
    interrupted => ~Answered

====
